---- MODULE Spec2Model ----
(***************************************************************************)
(* Model of the breast-cancer risk API: the session variant (src/app.py)   *)
(* and the JWT variant (src/backend/app.py).                               *)
(*                                                                         *)
(* Numbers.  The Python code computes with floats.  The model computes     *)
(* with exact integers in fixed units:                                     *)
(*   - symptom scores in thousandths of a percent (age*0.2 is age*200),    *)
(*   - technical probabilities in 1/6000 of a percent, so that             *)
(*     (sum/6)*5 of features given in thousandths is the integer 5*sum,    *)
(*   - every reported (rounded) value in hundredths of a percent.          *)
(* round(x, 2) is modelled as rounding to the nearest hundredth.  Where x  *)
(* is a decimal tie (x.xx5) the double that Python holds is a little above *)
(* or below the tie, and round() goes that way: the direction is recorded  *)
(* per input in the tables TieUpMalignant .. ClfTieUpBenign, which list    *)
(* what CPython does on the inputs of FeatureValues and ProbValues.        *)
(***************************************************************************)
EXTENDS Integers, Sequences, FiniteSets, TLC

VARIABLES variant, model, users_db, predictions_db, session, disk, request, response,
          observed,  \* history variable: the predictions the clients were answered with
          predictions_file,  \* database.py: the content of data/predictions.json
          calls              \* database.py: the save_prediction call of each worker

vars == <<variant, model, users_db, predictions_db, session, disk, request, response,
          observed, predictions_file, calls>>

(***************************************************************************)
(* Bounds of the model                                                     *)
(***************************************************************************)
MaxAge == 55

\* ages run from -MaxNegAge: int() accepts a negative age
MaxNegAge == 2

MaxHistory == 2

Emails == {"a@x.io", "b@x.io"}

Passwords == {"pw1", "pw2"}

Variants == {"session", "jwt"}

Ages == (0 - MaxNegAge)..MaxAge

\* the age of a payload: given says whether the key is present, ok whether
\* int() accepts the value, val the integer it yields; beside the integer
\* ages there are a value int() rejects and a payload without the key
BadAge == [given |-> TRUE, ok |-> FALSE, val |-> 0]

NoAge == [given |-> FALSE, ok |-> FALSE, val |-> 0]

AgeInputs == [given : {TRUE}, ok : {TRUE}, val : Ages] \cup {BadAge, NoAge}

\* "no" stands for every value other than the literal 'yes'
SymptomAnswers == {"yes", "no"}

\* feature values in thousandths: 0, 0.006, 60.0, 1000.0 and -12.0
FeatureValues == {0, 6, 60000}

RadiusValues == FeatureValues \cup {1000000, -12000}

FeatureInputs == [ok : {TRUE}, val : FeatureValues] \cup {[ok |-> FALSE, val |-> 0]}

RadiusInputs == [ok : {TRUE}, val : RadiusValues] \cup {[ok |-> FALSE, val |-> 0]}

\* class-1 probabilities a loaded classifier may return, in 1/100000
ProbValues == {0, 12345, 50000, 50001, 100000}

(***************************************************************************)
(* Helpers                                                                 *)
(***************************************************************************)
Min(a, b) == IF a <= b THEN a ELSE b

RECURSIVE SumSeq(_)
SumSeq(s) == IF s = <<>> THEN 0 ELSE Head(s) + SumSeq(Tail(s))

\* Python dict: a function whose domain is the set of keys
EmptyDict == [k \in {} |-> 0]

DictGet(d, k, default) == IF k \in DOMAIN d THEN d[k] ELSE default

DictSet(d, k, v) == [x \in (DOMAIN d) \cup {k} |-> IF x = k THEN v ELSE d[x]]

\* list.insert(0, x)
Insert0(s, x) == <<x>> \o s

\* round(n/d percent, 2) in hundredths, n/d being the value in hundredths;
\* tieUp is the way the double leans when n/d is exactly halfway
Round2(n, d, tieUp) ==
    LET q == n \div d
        r == n % d
    IN  IF 2 * r < d THEN q
        ELSE IF 2 * r > d THEN q + 1
        ELSE IF tieUp THEN q + 1 ELSE q

Rec(c, r, p, d) == [category |-> c, recommendation |-> r, priority |-> p, details |-> d]

(***************************************************************************)
(* Symptom path: predict_symptom_based                                     *)
(***************************************************************************)
\* data.get('age', 0): the payload's age, the integer 0 when the key is absent
GetAge(data) ==
    IF data.age.given THEN data.age ELSE [given |-> TRUE, ok |-> TRUE, val |-> 0]

\* a comparison that ignores case: 'Yes' counts as positive too
Flag_CaseInsensitive(v) == IF v \in {"yes", "Yes"} THEN 1 ELSE 0

\* 1 if data.get(k) == 'yes' else 0
Flag(v) == IF v = "yes" THEN 1 ELSE 0

\* risk_score with the age multiplier switching at 50 instead of above 50
risk_score_SwitchAtFifty(age, data) ==
    (IF age >= 50 THEN age * 500 ELSE age * 200)
    + Flag(data.familyHistory) * 20000
    + Flag(data.previousConditions) * 15000
    + Flag(data.lumpPresent) * 25000
    + Flag(data.nippleDischarge) * 15000
    + Flag(data.skinChanges) * 20000
    + Flag(data.breastPain) * 10000
    + Flag(data.armpitSwelling) * 22000
    + Flag(data.asymmetry) * 18000

\* risk_score in thousandths of a percent
risk_score(age, data) ==
    (IF age > 50 THEN age * 500 ELSE age * 200)
    + Flag(data.familyHistory) * 20000
    + Flag(data.previousConditions) * 15000
    + Flag(data.lumpPresent) * 25000
    + Flag(data.nippleDischarge) * 15000
    + Flag(data.skinChanges) * 20000
    + Flag(data.breastPain) * 10000
    + Flag(data.armpitSwelling) * 22000
    + Flag(data.asymmetry) * 18000

\* risk_percentage without the cap at 100
risk_percentage_NoCap(age, data) == risk_score(age, data)

\* risk_percentage = min(risk_score, 100), in thousandths
\* a score that wraps around at 100 instead of stopping there
risk_percentage_Wrapping(age, data) == risk_score(age, data) % 100000

\* a score that carries over from the stored predictions: ten points for
\* every user with a history
risk_percentage_Accumulating(age, data) ==
    Min(risk_score(age, data) + 10000 * Cardinality(DOMAIN predictions_db), 100000)

risk_percentage(age, data) == Min(risk_score(age, data), 100000)

AgeRec == Rec("Screening", "Schedule annual mammograms", "High",
              "Women over 40 should have yearly mammograms for early detection.")

GeneticRec == Rec("Genetic Testing", "Consider BRCA1/BRCA2 genetic testing", "High",
                  "Family history increases risk. Genetic counseling can help assess inherited risk.")

EarlierRec == Rec("Screening", "Start screening earlier (age 30-35)", "High",
                  "With family history, earlier and more frequent screening is recommended.")

LumpRec(v) == Rec("Immediate Action", "Schedule clinical breast exam immediately", "Urgent",
                  IF v = "session"
                  THEN "Any new lump should be evaluated by a healthcare provider as soon as possible."
                  ELSE "Any new lump should be evaluated by a healthcare provider.")

NippleRec == Rec("Medical Evaluation", "Consult doctor about nipple discharge", "High",
                 "Nipple discharge can indicate various conditions and should be evaluated.")

SkinRec == Rec("Medical Evaluation", "Get skin changes examined", "High",
               "Skin dimpling, redness, or texture changes should be evaluated promptly.")

ArmpitRec(v) == Rec("Immediate Action", "Evaluate lymph node swelling immediately", "Urgent",
                    IF v = "session"
                    THEN "Swelling in armpit or near collarbone may indicate lymph node involvement and requires urgent medical attention."
                    ELSE "Swelling in armpit or near collarbone may indicate lymph node involvement.")

AsymmetryRec(v) == Rec("Medical Evaluation", "Assess sudden breast asymmetry", "High",
                       IF v = "session"
                       THEN "Sudden changes in breast size or shape should be evaluated by a healthcare provider."
                       ELSE "Sudden changes in breast size or shape should be evaluated.")

\* the if-blocks with the age test inclusive and the lump block moved
\* behind the nipple-discharge block
SymptomConditional_Reordered(v, age, data) ==
    (IF age >= 40 THEN <<AgeRec>> ELSE <<>>)
    \o (IF Flag(data.familyHistory) = 1 THEN <<GeneticRec, EarlierRec>> ELSE <<>>)
    \o (IF Flag(data.nippleDischarge) = 1 THEN <<NippleRec>> ELSE <<>>)
    \o (IF Flag(data.lumpPresent) = 1 THEN <<LumpRec(v)>> ELSE <<>>)
    \o (IF Flag(data.skinChanges) = 1 THEN <<SkinRec>> ELSE <<>>)
    \o (IF Flag(data.armpitSwelling) = 1 THEN <<ArmpitRec(v)>> ELSE <<>>)
    \o (IF Flag(data.asymmetry) = 1 THEN <<AsymmetryRec(v)>> ELSE <<>>)

\* the records appended by the if-blocks, in the order of the blocks
SymptomConditional(v, age, data) ==
    (IF age > 40 THEN <<AgeRec>> ELSE <<>>)
    \o (IF Flag(data.familyHistory) = 1 THEN <<GeneticRec, EarlierRec>> ELSE <<>>)
    \o (IF Flag(data.lumpPresent) = 1 THEN <<LumpRec(v)>> ELSE <<>>)
    \o (IF Flag(data.nippleDischarge) = 1 THEN <<NippleRec>> ELSE <<>>)
    \o (IF Flag(data.skinChanges) = 1 THEN <<SkinRec>> ELSE <<>>)
    \o (IF Flag(data.armpitSwelling) = 1 THEN <<ArmpitRec(v)>> ELSE <<>>)
    \o (IF Flag(data.asymmetry) = 1 THEN <<AsymmetryRec(v)>> ELSE <<>>)

SymptomGeneral(v) ==
    << Rec("Lifestyle", "Maintain healthy weight", "Medium",
           "Being overweight increases breast cancer risk, especially after menopause."),
       Rec("Lifestyle", "Exercise regularly (150 min/week)", "Medium",
           "Regular physical activity can reduce breast cancer risk by 10-20%."),
       Rec("Lifestyle", "Limit alcohol consumption", "Medium",
           IF v = "session"
           THEN "Even small amounts of alcohol can increase risk. Limit to 1 drink per day or less."
           ELSE "Even small amounts of alcohol can increase risk."),
       Rec("Diet", "Eat a healthy diet rich in fruits and vegetables", "Medium",
           "A diet high in vegetables, fruits, and whole grains may help reduce risk."),
       Rec("Self-Care", "Perform monthly breast self-exams", "Medium",
           "Know what's normal for you and report any changes to your doctor.") >>

HighRiskRec(v) == Rec("Urgent", "Schedule comprehensive medical evaluation", "Urgent",
                      IF v = "session"
                      THEN "High risk requires immediate medical attention and comprehensive screening."
                      ELSE "High risk requires immediate medical attention.")

ModerateRiskRec(v) == Rec("Follow-up", "Consult healthcare provider within 2 weeks", "High",
                          IF v = "session"
                          THEN "Moderate risk warrants professional evaluation and personalized screening plan."
                          ELSE "Moderate risk warrants professional evaluation.")

\* the risk-specific record appended at the end instead of inserted first
RiskPrepend_Appended(v, rp, list) ==
    IF rp > 60000 THEN Append(list, HighRiskRec(v))
    ELSE IF rp > 30000 THEN Append(list, ModerateRiskRec(v))
    ELSE list

\* the risk-specific insert(0, ...) on the assembled list; rp in thousandths
RiskPrepend(v, rp, list) ==
    IF rp > 60000 THEN Insert0(list, HighRiskRec(v))
    ELSE IF rp > 30000 THEN Insert0(list, ModerateRiskRec(v))
    ELSE list

SymptomPreventions(v, age, data) ==
    RiskPrepend(v, risk_percentage(age, data),
                SymptomConditional(v, age, data) \o SymptomGeneral(v))

\* the outcome with inclusive thresholds
SymptomOutcome_Inclusive(rp) ==
    IF rp >= 60000 THEN "High Risk"
    ELSE IF rp >= 30000 THEN "Moderate Risk"
    ELSE "Low Risk"

\* the conditional expression that sets 'outcome'; rp in thousandths
SymptomOutcome(rp) ==
    IF rp > 60000 THEN "High Risk"
    ELSE IF rp > 30000 THEN "Moderate Risk"
    ELSE "Low Risk"

\* round(risk_percentage, 2): an exact tie would be an exactly representable
\* double (a multiple of 1/8 percent), which round() sends to the even side
RoundRisk(rp) == Round2(rp, 10, (rp \div 10) % 2 = 1)

\* the prediction dict (without its wall-clock timestamp); the session
\* variant adds user_email and input_data
SymptomPrediction(v, age, data, user) ==
    LET rp == risk_percentage(age, data)
        base == [type |-> "symptom-based",
                 risk_percentage |-> RoundRisk(rp),
                 outcome |-> SymptomOutcome(rp),
                 preventions |-> SymptomPreventions(v, age, data)]
    IN  IF v = "session"
        THEN base @@ [user_email |-> user, input_data |-> data]
        ELSE base

(***************************************************************************)
(* Technical path: predict_technical                                       *)
(***************************************************************************)
\* the classifier loaded at start-up: absent ("none"), failing on every
\* call ("raises"), returning a one-class distribution ("single"), or
\* returning class-1 probability proba/100000 ("ok")
NoModel == [kind |-> "none", proba |-> 0]

Models == {NoModel, [kind |-> "raises", proba |-> 0], [kind |-> "single", proba |-> 0]}
          \cup [kind : {"ok"}, proba : ProbValues]

FeatureNames == <<"radiusMean", "textureMean", "perimeterMean",
                  "areaMean", "smoothnessMean", "compactnessMean">>

\* every float(data.get(k, 0)) succeeds
FeaturesOk(data) == \A i \in 1..6 : data[FeatureNames[i]].ok

\* the list features, in thousandths
Features(data) == << data.radiusMean.val, data.textureMean.val, data.perimeterMean.val,
                     data.areaMean.val, data.smoothnessMean.val, data.compactnessMean.val >>

\* feature sums (thousandths) whose (sum/6)*5 is a decimal tie that
\* round(malignant_prob, 2) sends upwards
TieUpMalignant == {-11994, -11982, -11970, 6, 18, 30, 48018, 60018, 60030, 108006, 108018}

\* feature sums (thousandths) whose 100 - (sum/6)*5 is a decimal tie that
\* round(100 - malignant_prob, 2) sends upwards
TieUpBenign == {-11994, 6, 48006, 60006}

\* the same for probability[1] * 100 of the classifier
ClfTieUpMalignant == {12345}

ClfTieUpBenign == {12345}

\* the fallback calculation without the cap at 100
FallbackProb_NoCap(features) == 5 * SumSeq(features)

\* the fallback calculation, in 1/6000 of a percent
FallbackProb(features) == Min(5 * SumSeq(features), 600000)

\* malignant_prob with the except branch falling back to the formula
malignant_prob_FallbackOnError(m, features) ==
    IF m.kind = "none" \/ m.kind = "raises" THEN FallbackProb(features)
    ELSE IF m.kind = "ok" THEN 6 * m.proba
    ELSE 300000

\* malignant_prob of the 'if model:' block, in 1/6000 of a percent
malignant_prob(m, features) ==
    IF m.kind = "none" THEN FallbackProb(features)
    ELSE IF m.kind = "ok" THEN 6 * m.proba
    ELSE \* len(probability) <= 1, or the except branch
         300000

\* round(malignant_prob, 2) in hundredths
RoundMalignant(m, features) ==
    Round2(malignant_prob(m, features), 60,
           IF m.kind = "none" THEN SumSeq(features) \in TieUpMalignant
           ELSE m.proba \in ClfTieUpMalignant)

\* round(100 - malignant_prob, 2) in hundredths
RoundBenign(m, features) ==
    Round2(600000 - malignant_prob(m, features), 60,
           IF m.kind = "none" THEN SumSeq(features) \in TieUpBenign
           ELSE m.proba \in ClfTieUpBenign)

\* the records of the if/else on malignant_prob > 50; mp in 1/6000
TechnicalConditional(v, mp) ==
    IF mp > 300000
    THEN IF v = "session"
         THEN << Rec("Urgent", "Consult oncologist immediately", "Urgent",
                     "High malignancy probability requires immediate specialist consultation."),
                 Rec("Diagnostic", "Schedule biopsy and additional imaging", "Urgent",
                     "Confirmatory tests are essential for accurate diagnosis and treatment planning."),
                 Rec("Support", "Consider genetic counseling", "High",
                     "Understanding genetic factors can guide treatment and family screening.") >>
         ELSE << Rec("Urgent", "Consult oncologist immediately", "Urgent",
                     "High malignancy probability requires specialist consultation."),
                 Rec("Diagnostic", "Schedule biopsy and additional imaging", "Urgent",
                     "Confirmatory tests are essential for accurate diagnosis.") >>
    ELSE IF v = "session"
         THEN << Rec("Follow-up", "Schedule follow-up in 6 months", "Medium",
                     "Even benign findings should be monitored regularly."),
                 Rec("Screening", "Continue regular mammograms", "Medium",
                     "Maintain routine screening schedule as recommended by your doctor.") >>
         ELSE << Rec("Follow-up", "Schedule follow-up in 6 months", "Medium",
                     "Regular monitoring is important even for benign findings.") >>

\* the general records; the JWT variant appends none
TechnicalGeneral(v) ==
    IF v = "session"
    THEN << Rec("Lifestyle", "Maintain healthy lifestyle", "Medium",
                "Regular exercise, healthy diet, and limited alcohol reduce cancer risk."),
            Rec("Monitoring", "Track any changes in breast tissue", "Medium",
                "Report any new lumps, pain, or changes to your healthcare provider."),
            Rec("Education", "Learn about breast health", "Low",
                "Understanding risk factors and symptoms empowers early detection.") >>
    ELSE << >>

\* the technical list with the Urgent overall record inserted first on the
\* malignant branch
TechnicalPreventions_Prepended(v, mp) ==
    IF mp > 300000
    THEN Insert0(TechnicalConditional(v, mp) \o TechnicalGeneral(v), HighRiskRec(v))
    ELSE TechnicalConditional(v, mp) \o TechnicalGeneral(v)

TechnicalPreventions(v, mp) == TechnicalConditional(v, mp) \o TechnicalGeneral(v)

\* the outcome with an inclusive threshold
TechnicalOutcome_Inclusive(mp) == IF mp >= 300000 THEN "Malignant" ELSE "Benign"

\* the conditional expression that sets 'outcome'; mp in 1/6000
TechnicalOutcome(mp) == IF mp > 300000 THEN "Malignant" ELSE "Benign"

TechnicalPrediction(v, m, data, user) ==
    LET features == Features(data)
        mp == malignant_prob(m, features)
        base == [type |-> "technical",
                 malignant_probability |-> RoundMalignant(m, features),
                 benign_probability |-> RoundBenign(m, features),
                 outcome |-> TechnicalOutcome(mp),
                 preventions |-> TechnicalPreventions(v, mp)]
    IN  IF v = "session"
        THEN base @@ [user_email |-> user, input_data |-> data]
        ELSE base

(***************************************************************************)
(* Requests and responses                                                  *)
(***************************************************************************)
\* the Authorization header: absent, garbage, or a token issued for email
NoAuth == [kind |-> "none", email |-> ""]

InvalidAuth == [kind |-> "invalid", email |-> ""]

Bearer(e) == [kind |-> "bearer", email |-> e]

Auths == {NoAuth, InvalidAuth} \cup {Bearer(e) : e \in Emails}

SymptomData == [age : AgeInputs, familyHistory : SymptomAnswers,
                previousConditions : SymptomAnswers, lumpPresent : SymptomAnswers,
                nippleDischarge : SymptomAnswers, skinChanges : SymptomAnswers,
                breastPain : SymptomAnswers, armpitSwelling : SymptomAnswers,
                asymmetry : SymptomAnswers]

TechnicalData == [radiusMean : RadiusInputs, textureMean : FeatureInputs,
                  perimeterMean : FeatureInputs, areaMean : FeatureInputs,
                  smoothnessMean : FeatureInputs, compactnessMean : FeatureInputs]

NoRequest == [kind |-> "none", auth |-> NoAuth, data |-> EmptyDict]

\* a request that is received and not yet answered
Pending == [status |-> 0, body |-> EmptyDict]

\* no request was received yet
Idle == [status |-> -1, body |-> EmptyDict]

Error(st, msg) == [status |-> st, body |-> [error |-> msg]]

Ok(st, body) == [status |-> st, body |-> body]

\* predictions_db[e] = [prediction]: the new record replaces the history
AppendPrediction_Overwrite(db, e, prediction) == DictSet(db, e, <<prediction>>)

\* predictions_db[e].insert(0, prediction): the newest record comes first
AppendPrediction_Prepend(db, e, prediction) ==
    DictSet(db, e, <<prediction>> \o DictGet(db, e, <<>>))

\* predictions_db[e].append(prediction), creating the list when absent
AppendPrediction(db, e, prediction) ==
    DictSet(db, e, Append(DictGet(db, e, <<>>), prediction))

\* number of predictions stored in db
RECURSIVE Stored(_)
Stored(db) ==
    IF DOMAIN db = {} THEN 0
    ELSE LET e == CHOOSE x \in DOMAIN db : TRUE
         IN  Len(db[e]) + Stored([x \in (DOMAIN db) \ {e} |-> db[x]])

\* bound of the model on the number of stored predictions
HistoryRoom == Stored(predictions_db) < MaxHistory

\* save_data(): both dicts are dumped to the data files
save_data(users, predictions) == [users |-> users, predictions |-> predictions]

\* token_required: the error it answers with, "" when it lets the call pass
TokenError(auth) ==
    IF auth.kind = "none" THEN "Token is missing"
    ELSE IF auth.kind = "invalid" THEN "Invalid token"
    ELSE IF auth.email \notin DOMAIN users_db THEN "User not found"
    ELSE ""

\* nothing was answered yet
NoObservations == [answers |-> {}, submitted |-> EmptyDict]

\* the part of a returned prediction that does not name the requester
Core(body) == [f \in (DOMAIN body) \ {"user_email"} |-> body[f]]

\* return jsonify(prediction): the client of req receives resp.  A 200 is
\* recorded with its payload in answers and, when the requester is
\* authenticated as user, at the end of what user has submitted.
Observe(o, req, resp, user) ==
    IF resp.status # 200 THEN o
    ELSE [answers |-> o.answers \cup {[kind |-> req.kind, data |-> req.data,
                                        result |-> Core(resp.body)]},
          submitted |-> IF user = "" THEN o.submitted
                        ELSE DictSet(o.submitted, user,
                                     Append(DictGet(o.submitted, user, <<>>), resp.body))]

\* Database.__init__: predictions.json holds {}; open says whether a writer
\* has truncated the file and not yet dumped into it
EmptyFile == [open |-> FALSE, content |-> EmptyDict]

\* the workers that call the Database
Workers == {"w1", "w2"}

\* no worker is inside save_prediction and none has returned from it
NoCalls == [w \in Workers |->
               [pc |-> "idle", user_email |-> "", prediction_data |-> 0,
                predictions |-> EmptyDict, saved |-> {}]]

(***************************************************************************)
(* Prediction handlers                                                     *)
(***************************************************************************)
\* predict_symptom_based storing every prediction, under 'anonymous' when
\* the session has no user
predict_symptom_based_StoresAnonymous ==
    /\ variant = "session"
    /\ request.kind = "symptom"
    /\ response = Pending
    /\ LET data == request.data
       IN  IF ~GetAge(data).ok
           THEN /\ response' = Error(500, "Internal Server Error")
                /\ UNCHANGED <<predictions_db, disk>>
           ELSE LET user == DictGet(session, "user_email", "anonymous")
                    prediction == SymptomPrediction("session", GetAge(data).val, data, user)
                IN  /\ HistoryRoom
                    /\ predictions_db' = AppendPrediction(predictions_db, user, prediction)
                    /\ disk' = save_data(users_db, predictions_db')
                    /\ response' = Ok(200, prediction)
    /\ observed' = Observe(observed, request, response',
                           DictGet(session, "user_email", ""))
    /\ UNCHANGED <<variant, model, users_db, session, request,
                   predictions_file, calls>>

\* predict_symptom_based falling back to age 0 when int() rejects the age
predict_symptom_based_DefaultAge ==
    /\ variant = "session"
    /\ request.kind = "symptom"
    /\ response = Pending
    /\ LET data == request.data
           age == IF GetAge(data).ok THEN GetAge(data).val ELSE 0
           prediction == SymptomPrediction("session", age, data,
                             DictGet(session, "user_email", "anonymous"))
       IN  /\ IF "user_email" \in DOMAIN session
              THEN /\ HistoryRoom
                   /\ predictions_db' = AppendPrediction(predictions_db,
                                           session["user_email"], prediction)
                   /\ disk' = save_data(users_db, predictions_db')
              ELSE UNCHANGED <<predictions_db, disk>>
           /\ response' = Ok(200, prediction)
    /\ observed' = Observe(observed, request, response',
                           DictGet(session, "user_email", ""))
    /\ UNCHANGED <<variant, model, users_db, session, request,
                   predictions_file, calls>>

\* src/app.py: session variant
predict_symptom_based ==
    /\ variant = "session"
    /\ request.kind = "symptom"
    /\ response = Pending
    /\ LET data == request.data
       IN  IF ~GetAge(data).ok
           THEN \* int() raises, nothing catches it
                /\ response' = Error(500, "Internal Server Error")
                /\ UNCHANGED <<predictions_db, disk>>
           ELSE LET prediction == SymptomPrediction("session", GetAge(data).val, data,
                                      DictGet(session, "user_email", "anonymous"))
                IN  /\ IF "user_email" \in DOMAIN session
                       THEN /\ HistoryRoom
                            /\ predictions_db' = AppendPrediction(predictions_db,
                                                    session["user_email"], prediction)
                            /\ disk' = save_data(users_db, predictions_db')
                       ELSE UNCHANGED <<predictions_db, disk>>
                    /\ response' = Ok(200, prediction)
    /\ observed' = Observe(observed, request, response',
                           DictGet(session, "user_email", ""))
    /\ UNCHANGED <<variant, model, users_db, session, request,
                   predictions_file, calls>>

\* predict_technical without the try/except around the classifier calls: a
\* raising classifier ends the request like any uncaught exception
predict_technical_Uncaught ==
    /\ variant = "session"
    /\ request.kind = "technical"
    /\ response = Pending
    /\ LET data == request.data
       IN  IF ~FeaturesOk(data) \/ model.kind = "raises"
           THEN /\ response' = Error(500, "Internal Server Error")
                /\ UNCHANGED <<predictions_db, disk>>
           ELSE LET prediction == TechnicalPrediction("session", model, data,
                                      DictGet(session, "user_email", "anonymous"))
                IN  /\ IF "user_email" \in DOMAIN session
                       THEN /\ HistoryRoom
                            /\ predictions_db' = AppendPrediction(predictions_db,
                                                    session["user_email"], prediction)
                            /\ disk' = save_data(users_db, predictions_db')
                       ELSE UNCHANGED <<predictions_db, disk>>
                    /\ response' = Ok(200, prediction)
    /\ observed' = Observe(observed, request, response',
                           DictGet(session, "user_email", ""))
    /\ UNCHANGED <<variant, model, users_db, session, request,
                   predictions_file, calls>>

predict_technical ==
    /\ variant = "session"
    /\ request.kind = "technical"
    /\ response = Pending
    /\ LET data == request.data
       IN  IF ~FeaturesOk(data)
           THEN \* float() raises, nothing catches it
                /\ response' = Error(500, "Internal Server Error")
                /\ UNCHANGED <<predictions_db, disk>>
           ELSE LET prediction == TechnicalPrediction("session", model, data,
                                      DictGet(session, "user_email", "anonymous"))
                IN  /\ IF "user_email" \in DOMAIN session
                       THEN /\ HistoryRoom
                            /\ predictions_db' = AppendPrediction(predictions_db,
                                                    session["user_email"], prediction)
                            /\ disk' = save_data(users_db, predictions_db')
                       ELSE UNCHANGED <<predictions_db, disk>>
                    /\ response' = Ok(200, prediction)
    /\ observed' = Observe(observed, request, response',
                           DictGet(session, "user_email", ""))
    /\ UNCHANGED <<variant, model, users_db, session, request,
                   predictions_file, calls>>

\* src/backend/app.py: JWT variant
jwt_predict_symptom_based ==
    /\ variant = "jwt"
    /\ request.kind = "symptom"
    /\ response = Pending
    /\ IF TokenError(request.auth) # ""
       THEN /\ response' = Error(401, TokenError(request.auth))
            /\ UNCHANGED predictions_db
       ELSE LET current_user_email == request.auth.email
                data == request.data
            IN  IF ~GetAge(data).ok
                THEN \* except Exception as e
                     /\ response' = Error(500, "invalid literal for int()")
                     /\ UNCHANGED predictions_db
                ELSE LET prediction == SymptomPrediction("jwt", GetAge(data).val, data,
                                           current_user_email)
                     IN  /\ HistoryRoom
                         /\ predictions_db' = AppendPrediction(predictions_db,
                                                 current_user_email, prediction)
                         /\ response' = Ok(200, prediction)
    /\ observed' = Observe(observed, request, response', request.auth.email)
    /\ UNCHANGED <<variant, model, users_db, session, disk, request,
                   predictions_file, calls>>

jwt_predict_technical ==
    /\ variant = "jwt"
    /\ request.kind = "technical"
    /\ response = Pending
    /\ IF TokenError(request.auth) # ""
       THEN /\ response' = Error(401, TokenError(request.auth))
            /\ UNCHANGED predictions_db
       ELSE LET current_user_email == request.auth.email
                data == request.data
            IN  IF ~FeaturesOk(data)
                THEN \* except Exception as e
                     /\ response' = Error(500, "could not convert string to float")
                     /\ UNCHANGED predictions_db
                ELSE LET prediction == TechnicalPrediction("jwt", model, data,
                                           current_user_email)
                     IN  /\ HistoryRoom
                         /\ predictions_db' = AppendPrediction(predictions_db,
                                                 current_user_email, prediction)
                         /\ response' = Ok(200, prediction)
    /\ observed' = Observe(observed, request, response', request.auth.email)
    /\ UNCHANGED <<variant, model, users_db, session, disk, request,
                   predictions_file, calls>>

Predict ==
    \/ predict_symptom_based
    \/ predict_technical
    \/ jwt_predict_symptom_based
    \/ jwt_predict_technical

(***************************************************************************)
(* Scoring specification: one prediction request in flight, drawn from     *)
(* the whole input domain, on a server with one registered user            *)
(***************************************************************************)
\* generate_password_hash / check_password_hash
Hash(password) == [bcrypt |-> password]

UserRecord(name, email, password) ==
    [name |-> name, email |-> email, password |-> Hash(password)]

ScoreUser == "a@x.io"

InitScore ==
    /\ variant \in Variants
    /\ users_db = DictSet(EmptyDict, ScoreUser, UserRecord("A", ScoreUser, "pw1"))
    /\ predictions_db = EmptyDict
    /\ disk = IF variant = "session" THEN save_data(users_db, EmptyDict)
              ELSE save_data(EmptyDict, EmptyDict)
    /\ \/ variant = "session"
          /\ session \in {EmptyDict, [k \in {"user_email"} |-> ScoreUser]}
          /\ \E d \in SymptomData \cup TechnicalData :
                request = [kind |-> IF d \in SymptomData THEN "symptom" ELSE "technical",
                           auth |-> NoAuth, data |-> d]
       \/ variant = "jwt"
          /\ session = EmptyDict
          /\ \E d \in SymptomData \cup TechnicalData, a \in Auths :
                request = [kind |-> IF d \in SymptomData THEN "symptom" ELSE "technical",
                           auth |-> a, data |-> d]
    /\ model \in IF request.kind = "symptom" THEN {NoModel} ELSE Models
    /\ response = Pending
    /\ observed = NoObservations
    /\ predictions_file = EmptyFile
    /\ calls = NoCalls

SpecScore == InitScore /\ [][Predict]_vars

(***************************************************************************)
(* Account and history handlers                                            *)
(***************************************************************************)
check_password_hash(hash, password) == hash.bcrypt = password

\* src/app.py: session variant
\* register without the 'email in users_db' test: a second registration
\* replaces the account
register_Overwriting ==
    /\ variant = "session"
    /\ request.kind = "register"
    /\ response = Pending
    /\ LET email == request.data.email
           password == request.data.password
           name == request.data.name
       IN  IF email = "" \/ password = "" \/ name = ""
           THEN /\ response' = Error(400, "All fields required")
                /\ UNCHANGED <<users_db, disk>>
           ELSE /\ users_db' = DictSet(users_db, email, UserRecord(name, email, password))
                /\ disk' = save_data(users_db', predictions_db)
                /\ response' = Ok(201, [message |-> "Registration successful"])
    /\ UNCHANGED <<variant, model, predictions_db, session, request, observed,
                   predictions_file, calls>>

register ==
    /\ variant = "session"
    /\ request.kind = "register"
    /\ response = Pending
    /\ LET email == request.data.email
           password == request.data.password
           name == request.data.name
       IN  IF email = "" \/ password = "" \/ name = ""
           THEN /\ response' = Error(400, "All fields required")
                /\ UNCHANGED <<users_db, disk>>
           ELSE IF email \in DOMAIN users_db
           THEN /\ response' = Error(400, "User already exists")
                /\ UNCHANGED <<users_db, disk>>
           ELSE /\ users_db' = DictSet(users_db, email, UserRecord(name, email, password))
                /\ disk' = save_data(users_db', predictions_db)
                /\ response' = Ok(201, [message |-> "Registration successful"])
    /\ UNCHANGED <<variant, model, predictions_db, session, request, observed,
                   predictions_file, calls>>

login ==
    /\ variant = "session"
    /\ request.kind = "login"
    /\ response = Pending
    /\ LET email == request.data.email
           password == request.data.password
       IN  IF email = "" \/ password = ""
           THEN /\ response' = Error(400, "Email and password required")
                /\ UNCHANGED session
           ELSE IF \/ email \notin DOMAIN users_db
                   \/ ~check_password_hash(users_db[email].password, password)
           THEN /\ response' = Error(401, "Invalid credentials")
                /\ UNCHANGED session
           ELSE /\ session' = DictSet(session, "user_email", email)
                /\ response' = Ok(200, [message |-> "Login successful",
                                        user |-> [name |-> users_db[email].name,
                                                  email |-> users_db[email].email]])
    /\ UNCHANGED <<variant, model, users_db, predictions_db, disk, request, observed,
                   predictions_file, calls>>

\* logout that answers without removing user_email from the session
logout_KeepsSession ==
    /\ variant = "session"
    /\ request.kind = "logout"
    /\ response = Pending
    /\ session' = session
    /\ response' = Ok(200, [message |-> "Logout successful"])
    /\ UNCHANGED <<variant, model, users_db, predictions_db, disk, request, observed,
                   predictions_file, calls>>

logout ==
    /\ variant = "session"
    /\ request.kind = "logout"
    /\ response = Pending
    /\ session' = [k \in (DOMAIN session) \ {"user_email"} |-> session[k]]
    /\ response' = Ok(200, [message |-> "Logout successful"])
    /\ UNCHANGED <<variant, model, users_db, predictions_db, disk, request, observed,
                   predictions_file, calls>>

get_prediction_history ==
    /\ variant = "session"
    /\ request.kind = "history"
    /\ response = Pending
    /\ response' = IF "user_email" \notin DOMAIN session
                   THEN Error(401, "Unauthorized")
                   ELSE Ok(200, DictGet(predictions_db, session["user_email"], <<>>))
    /\ UNCHANGED <<variant, model, users_db, predictions_db, session, disk, request, observed,
                   predictions_file, calls>>

\* src/backend/app.py: JWT variant
jwt_register ==
    /\ variant = "jwt"
    /\ request.kind = "register"
    /\ response = Pending
    /\ LET email == request.data.email
           password == request.data.password
           name == request.data.name
       IN  IF email = "" \/ password = "" \/ name = ""
           THEN /\ response' = Error(400, "All fields required")
                /\ UNCHANGED users_db
           ELSE IF email \in DOMAIN users_db
           THEN /\ response' = Error(400, "User already exists")
                /\ UNCHANGED users_db
           ELSE /\ users_db' = DictSet(users_db, email, UserRecord(name, email, password))
                /\ response' = Ok(201, [message |-> "Registration successful"])
    /\ UNCHANGED <<variant, model, predictions_db, session, disk, request, observed,
                   predictions_file, calls>>

jwt_login ==
    /\ variant = "jwt"
    /\ request.kind = "login"
    /\ response = Pending
    /\ LET email == request.data.email
           password == request.data.password
       IN  response' =
               IF email = "" \/ password = ""
               THEN Error(400, "Email and password required")
               ELSE IF \/ email \notin DOMAIN users_db
                       \/ ~check_password_hash(users_db[email].password, password)
               THEN Error(401, "Invalid credentials")
               ELSE Ok(200, [message |-> "Login successful",
                             token |-> Bearer(email),
                             user |-> [name |-> users_db[email].name,
                                       email |-> users_db[email].email]])
    /\ UNCHANGED <<variant, model, users_db, predictions_db, session, disk, request, observed,
                   predictions_file, calls>>

jwt_get_prediction_history ==
    /\ variant = "jwt"
    /\ request.kind = "history"
    /\ response = Pending
    /\ response' = IF TokenError(request.auth) # ""
                   THEN Error(401, TokenError(request.auth))
                   ELSE Ok(200, DictGet(predictions_db, request.auth.email, <<>>))
    /\ UNCHANGED <<variant, model, users_db, predictions_db, session, disk, request, observed,
                   predictions_file, calls>>

(***************************************************************************)
(* ai-assistance                                                           *)
(***************************************************************************)
\* the keyword table of ai_assistance, in the order the loop visits it
AiResponses(v) ==
    IF v = "session"
    THEN << [key |-> "symptoms", text |-> "Common breast cancer symptoms include lumps, nipple discharge, skin changes, and breast pain. Consult a doctor if you notice any changes."],
            [key |-> "prevention", text |-> "Prevention includes regular screenings, healthy lifestyle, limiting alcohol, maintaining healthy weight, and being physically active."],
            [key |-> "screening", text |-> "Mammograms are recommended annually for women over 40. Self-exams and clinical exams are also important."],
            [key |-> "treatment", text |-> "Treatment options include surgery, radiation, chemotherapy, hormone therapy, and targeted therapy. Treatment depends on cancer stage and type."],
            [key |-> "risk", text |-> "Risk factors include age, family history, genetic mutations (BRCA1/BRCA2), previous breast conditions, and lifestyle factors."] >>
    ELSE << [key |-> "symptom", text |-> "Common breast cancer symptoms include lumps, nipple discharge, skin changes, and breast pain."],
            [key |-> "prevention", text |-> "Prevention includes regular screenings, healthy lifestyle, limiting alcohol, and maintaining healthy weight."],
            [key |-> "screening", text |-> "Mammograms are recommended annually for women over 40."],
            [key |-> "treatment", text |-> "Treatment options include surgery, radiation, chemotherapy, hormone therapy, and targeted therapy."],
            [key |-> "risk", text |-> "Risk factors include age, family history, genetic mutations, and lifestyle factors."] >>

AiDefault(v) ==
    IF v = "session"
    THEN "I can help with questions about breast cancer symptoms, prevention, screening, treatment, and risk factors. Please ask a specific question."
    ELSE "I can help with questions about breast cancer symptoms, prevention, screening, treatment, and risk factors."

\* the text of the first key that occurs in question.lower(); a question
\* carries in 'contains' the keys that occur in its lower-cased text
AiResponse(v, question) ==
    LET hits == SelectSeq(AiResponses(v), LAMBDA r : r.key \in question.contains)
    IN  IF hits = << >> THEN AiDefault(v) ELSE hits[1].text

\* src/app.py: session variant
ai_assistance ==
    /\ variant = "session"
    /\ request.kind = "ai"
    /\ response = Pending
    /\ response' = IF "user_email" \notin DOMAIN session
                   THEN Error(401, "Unauthorized")
                   ELSE Ok(200, [response |-> AiResponse("session", request.data.question)])
    /\ UNCHANGED <<variant, model, users_db, predictions_db, session, disk, request, observed,
                   predictions_file, calls>>

\* src/backend/app.py: JWT variant
jwt_ai_assistance ==
    /\ variant = "jwt"
    /\ request.kind = "ai"
    /\ response = Pending
    /\ response' = IF TokenError(request.auth) # ""
                   THEN Error(401, TokenError(request.auth))
                   ELSE Ok(200, [response |-> AiResponse("jwt", request.data.question)])
    /\ UNCHANGED <<variant, model, users_db, predictions_db, session, disk, request, observed,
                   predictions_file, calls>>

(***************************************************************************)
(* The server: a client sends one request at a time, the handler of its    *)
(* route answers it                                                        *)
(***************************************************************************)
Names == {"Ann"}

\* the number of fields d gives as "", which stands for a missing or empty one
Missing(d) == Cardinality({f \in DOMAIN d : d[f] = ""})

\* registrations with every field, or with one field missing
RegisterData == {d \in [email : Emails \cup {""}, password : Passwords \cup {""},
                        name : Names \cup {""}] : Missing(d) <= 1}

\* logins with both fields, or with one field missing
LoginData == {d \in [email : Emails \cup {""}, password : Passwords \cup {""}] :
                 Missing(d) <= 1}

NoAnswers == [familyHistory |-> "no", previousConditions |-> "no", lumpPresent |-> "no",
              nippleDischarge |-> "no", skinChanges |-> "no", breastPain |-> "no",
              armpitSwelling |-> "no", asymmetry |-> "no"]

\* the symptom payloads the clients of Spec send: age 45 with family
\* history (29, Low Risk) and an age that int() rejects
SampleSymptomData ==
    { [age |-> [given |-> TRUE, ok |-> TRUE, val |-> 45]] @@ [NoAnswers EXCEPT !.familyHistory = "yes"],
      [age |-> BadAge] @@ NoAnswers }

Feature(x) == [ok |-> TRUE, val |-> x]

\* the technical payloads the clients of Spec send: radiusMean 1000, and a
\* radiusMean that float() rejects
SampleTechnicalData ==
    { [radiusMean |-> Feature(1000000), textureMean |-> Feature(0),
       perimeterMean |-> Feature(0), areaMean |-> Feature(0),
       smoothnessMean |-> Feature(0), compactnessMean |-> Feature(0)],
      [radiusMean |-> [ok |-> FALSE, val |-> 0], textureMean |-> Feature(0),
       perimeterMean |-> Feature(0), areaMean |-> Feature(0),
       smoothnessMean |-> Feature(0), compactnessMean |-> Feature(0)] }

\* the question the clients of Spec ask
SampleQuestions ==
    { [question |-> [text |-> "Which symptoms and risk factors are there?",
                     contains |-> {"symptom", "symptoms", "risk"}]] }

Requests ==
    [kind : {"register"}, auth : {NoAuth}, data : RegisterData]
    \cup [kind : {"login"}, auth : {NoAuth}, data : LoginData]
    \cup [kind : {"logout", "history"}, auth : Auths, data : {EmptyDict}]
    \cup [kind : {"symptom"}, auth : Auths, data : SampleSymptomData]
    \cup [kind : {"technical"}, auth : Auths, data : SampleTechnicalData]
    \cup [kind : {"ai"}, auth : Auths, data : SampleQuestions]

\* no route of the session variant reads the Authorization header, nor do
\* register and login of the JWT variant, which has no logout route
Send(r) ==
    /\ response # Pending
    /\ IF variant = "session" THEN r.auth = NoAuth ELSE r.kind # "logout"
    /\ request' = r
    /\ response' = Pending
    /\ UNCHANGED <<variant, model, users_db, predictions_db, session, disk, observed,
                   predictions_file, calls>>

Init ==
    /\ variant \in Variants
    /\ model \in {NoModel, [kind |-> "raises", proba |-> 0]}
    /\ users_db = EmptyDict
    /\ predictions_db = EmptyDict
    /\ session = EmptyDict
    /\ disk = save_data(EmptyDict, EmptyDict)
    /\ request = NoRequest
    /\ response = Idle
    /\ observed = NoObservations
    /\ predictions_file = EmptyFile
    /\ calls = NoCalls

Next ==
    \/ \E r \in Requests : Send(r)
    \/ register
    \/ login
    \/ logout
    \/ get_prediction_history
    \/ predict_symptom_based
    \/ predict_technical
    \/ jwt_register
    \/ jwt_login
    \/ jwt_get_prediction_history
    \/ jwt_predict_symptom_based
    \/ jwt_predict_technical
    \/ ai_assistance
    \/ jwt_ai_assistance

Spec == Init /\ [][Next]_vars

(***************************************************************************)
(* Properties of the symptom path.  Reported values are in hundredths of   *)
(* a percent: 2550 is 25.5.                                                *)
(***************************************************************************)
\* a symptom request was answered with a prediction
SymptomAnswered == request.kind = "symptom" /\ response.status = 200

\* a technical request was answered with a prediction
TechnicalAnswered == request.kind = "technical" /\ response.status = 200

Yes(field) == IF request.data[field] = "yes" THEN 1 ELSE 0

ReqAge == request.data.age.val

\* the weighted sum of the claim, in hundredths
ExpectedRisk ==
    (IF ReqAge > 50 THEN 50 * ReqAge ELSE 20 * ReqAge)
    + 2000 * Yes("familyHistory") + 1500 * Yes("previousConditions")
    + 2500 * Yes("lumpPresent") + 1500 * Yes("nippleDischarge")
    + 2000 * Yes("skinChanges") + 1000 * Yes("breastPain")
    + 2200 * Yes("armpitSwelling") + 1800 * Yes("asymmetry")

NoSymptoms ==
    \A f \in {"familyHistory", "previousConditions", "lumpPresent", "nippleDischarge",
              "skinChanges", "breastPain", "armpitSwelling", "asymmetry"} :
        request.data[f] # "yes"

\* C1: for a non-negative age and any yes/no answers, the returned
\* risk_percentage is min(100, ageTerm + weighted symptoms), ageTerm being
\* age*0.5 above 50 and age*0.2 up to 50; age 51 without symptoms gives 25.5
C1_RiskFormula ==
    (SymptomAnswered /\ ReqAge >= 0) =>
        /\ response.body.risk_percentage = Min(10000, ExpectedRisk)
        /\ (ReqAge = 51 /\ NoSymptoms) => response.body.risk_percentage = 2550
        /\ (ReqAge = 50 /\ NoSymptoms) => response.body.risk_percentage = 1000

C1_Witness ==
    /\ SymptomAnswered
    /\ ReqAge = 51
    /\ NoSymptoms
    /\ response.body.risk_percentage = 2550

\* C2: for every valid symptom input (age a non-negative integer) the
\* returned risk_percentage lies between 0 and 100
C2_RiskInRange ==
    (SymptomAnswered /\ ReqAge >= 0) =>
        /\ response.body.risk_percentage >= 0
        /\ response.body.risk_percentage <= 10000

\* the weighted sum exceeds 100 and the answer is 100
C2_Witness ==
    /\ SymptomAnswered
    /\ ReqAge >= 0
    /\ ExpectedRisk > 10000
    /\ response.body.risk_percentage = 10000

\* C3: the symptom outcome is High Risk exactly above 60, Moderate Risk
\* exactly in (30, 60], Low Risk exactly up to 30; 30 is Low, 60 is Moderate
C3_OutcomeBands ==
    SymptomAnswered =>
        LET rp == response.body.risk_percentage
            outcome == response.body.outcome
        IN  /\ outcome = "High Risk" <=> rp > 6000
            /\ outcome = "Moderate Risk" <=> (rp > 3000 /\ rp <= 6000)
            /\ outcome = "Low Risk" <=> rp <= 3000

\* a risk of exactly 60 answered as Moderate Risk
C3_Witness ==
    /\ SymptomAnswered
    /\ response.body.risk_percentage = 6000
    /\ response.body.outcome = "Moderate Risk"

IsUrgentOverall(r) ==
    /\ r.recommendation = "Schedule comprehensive medical evaluation"
    /\ r.priority = "Urgent"

IsHighOverall(r) ==
    /\ r.recommendation = "Consult healthcare provider within 2 weeks"
    /\ r.priority = "High"

IsOverall(r) ==
    \/ r.recommendation = "Schedule comprehensive medical evaluation"
    \/ r.recommendation = "Consult healthcare provider within 2 weeks"

\* recommendation texts of the conditional records, in the claimed order
ExpectedConditional ==
    (IF ReqAge > 40 THEN <<"Schedule annual mammograms">> ELSE <<>>)
    \o (IF Yes("familyHistory") = 1
        THEN <<"Consider BRCA1/BRCA2 genetic testing", "Start screening earlier (age 30-35)">>
        ELSE <<>>)
    \o (IF Yes("lumpPresent") = 1 THEN <<"Schedule clinical breast exam immediately">> ELSE <<>>)
    \o (IF Yes("nippleDischarge") = 1 THEN <<"Consult doctor about nipple discharge">> ELSE <<>>)
    \o (IF Yes("skinChanges") = 1 THEN <<"Get skin changes examined">> ELSE <<>>)
    \o (IF Yes("armpitSwelling") = 1 THEN <<"Evaluate lymph node swelling immediately">> ELSE <<>>)
    \o (IF Yes("asymmetry") = 1 THEN <<"Assess sudden breast asymmetry">> ELSE <<>>)

ConditionalTexts ==
    {"Schedule annual mammograms", "Consider BRCA1/BRCA2 genetic testing",
     "Start screening earlier (age 30-35)", "Schedule clinical breast exam immediately",
     "Consult doctor about nipple discharge", "Get skin changes examined",
     "Evaluate lymph node swelling immediately", "Assess sudden breast asymmetry"}

\* number of lifestyle/diet/self-care records that close the symptom list
SymptomTailLen == 5

\* C8: above 60 exactly one Urgent 'Schedule comprehensive medical
\* evaluation' record is at position 0 of the assembled list; else above 30
\* exactly one High 'Consult healthcare provider within 2 weeks' record is
\* at position 0; otherwise nothing is prepended.  The Urgent overall record,
\* when present, is the first element even next to other Urgent records
C8_OverallPrepend ==
    SymptomAnswered =>
        LET rp == response.body.risk_percentage
            P == response.body.preventions
            rest == Len(ExpectedConditional) + SymptomTailLen
        IN  /\ rp > 6000 =>
                /\ IsUrgentOverall(P[1])
                /\ Len(P) = 1 + rest
                /\ \A i \in 2..Len(P) : ~IsOverall(P[i])
            /\ (rp > 3000 /\ rp <= 6000) =>
                /\ IsHighOverall(P[1])
                /\ Len(P) = 1 + rest
                /\ \A i \in 2..Len(P) : ~IsOverall(P[i])
            /\ rp <= 3000 =>
                /\ Len(P) = rest
                /\ \A i \in 1..Len(P) : ~IsOverall(P[i])
            /\ \A i \in 1..Len(P) : IsUrgentOverall(P[i]) => i = 1

\* age 0 with lump, armpit swelling and asymmetry: 65, High Risk, the Urgent
\* overall record first and the Urgent lump record right after it
C8_Witness ==
    /\ SymptomAnswered
    /\ ReqAge = 0
    /\ response.body.risk_percentage = 6500
    /\ response.body.outcome = "High Risk"
    /\ IsUrgentOverall(response.body.preventions[1])
    /\ response.body.preventions[2].recommendation = "Schedule clinical breast exam immediately"
    /\ response.body.preventions[2].priority = "Urgent"
    /\ response.body.preventions[3].recommendation = "Evaluate lymph node swelling immediately"

\* C10: the conditional records appear in the order age>40 screening,
\* genetic testing, earlier screening, lump, nipple discharge, skin changes,
\* armpit swelling, asymmetry; each is present exactly when its factor is
\* positive (age strictly above 40, or the answer 'yes'), and family history
\* contributes exactly two records
C10_ConditionalOrder ==
    SymptomAnswered =>
        LET P == response.body.preventions
            cond == SelectSeq(P, LAMBDA r : r.recommendation \in ConditionalTexts)
        IN  /\ Len(cond) = Len(ExpectedConditional)
            /\ \A i \in 1..Len(cond) : cond[i].recommendation = ExpectedConditional[i]
            /\ Cardinality({i \in 1..Len(P) :
                               P[i].recommendation \in
                                   {"Consider BRCA1/BRCA2 genetic testing",
                                    "Start screening earlier (age 30-35)"}})
                   = 2 * Yes("familyHistory")

\* age 45 with family history only: 29, Low Risk, no prepend, the age
\* record and then the two family-history records
C10_Witness ==
    /\ SymptomAnswered
    /\ ReqAge = 45
    /\ response.body.risk_percentage = 2900
    /\ response.body.outcome = "Low Risk"
    /\ response.body.preventions[1].recommendation = "Schedule annual mammograms"
    /\ response.body.preventions[2].recommendation = "Consider BRCA1/BRCA2 genetic testing"
    /\ response.body.preventions[3].recommendation = "Start screening earlier (age 30-35)"
    /\ response.body.preventions[4].recommendation = "Maintain healthy weight"

(***************************************************************************)
(* Properties of the technical path.  Reported probabilities are in        *)
(* hundredths of a percent; feature values in thousandths.                 *)
(***************************************************************************)
\* sum of the six features of the request, in thousandths
ReqFeatureSum ==
    request.data.radiusMean.val + request.data.textureMean.val
    + request.data.perimeterMean.val + request.data.areaMean.val
    + request.data.smoothnessMean.val + request.data.compactnessMean.val

\* the answer of a server without classifier to the request in flight
FallbackAnswer == TechnicalPrediction(variant, NoModel, request.data, "")

AllFeaturesZero ==
    \A f \in {"radiusMean", "textureMean", "perimeterMean",
              "areaMean", "smoothnessMean", "compactnessMean"} :
        request.data[f].val = 0

\* C5: without classifier the malignant probability is
\* min((sum of the six features / 6) * 5, 100), reported to the nearest
\* hundredth: all-zero features give 0, 100 and Benign; features with
\* (sum/6)*5 > 100 give exactly 100 and 0
C5_FallbackFormula ==
    (TechnicalAnswered /\ model.kind = "none") =>
        LET exact == Min(5 * ReqFeatureSum, 600000)
            mp == response.body.malignant_probability
        IN  /\ 60 * mp - exact <= 30
            /\ exact - 60 * mp <= 30
            /\ AllFeaturesZero =>
                  /\ mp = 0
                  /\ response.body.benign_probability = 10000
                  /\ response.body.outcome = "Benign"
            /\ 5 * ReqFeatureSum > 600000 =>
                  /\ mp = 10000
                  /\ response.body.benign_probability = 0

\* features whose (sum/6)*5 exceeds 100, answered with 100 and 0
C5_Witness ==
    /\ TechnicalAnswered
    /\ model.kind = "none"
    /\ 5 * ReqFeatureSum > 600000
    /\ response.body.malignant_probability = 10000
    /\ response.body.benign_probability = 0
    /\ response.body.outcome = "Malignant"

\* C6: in every technical result the reported benign_probability is 100
\* minus the reported malignant_probability, the two summing to 100.00
C6_SumsToHundred ==
    TechnicalAnswered =>
        response.body.benign_probability = 10000 - response.body.malignant_probability

\* C7 as stated: the outcome is Malignant exactly when the reported
\* malignant_probability is above 50, and a reported 50 yields Benign
C7_AsStated ==
    TechnicalAnswered =>
        (response.body.outcome = "Malignant" <=> response.body.malignant_probability > 5000)

\* the probability before rounding is above 50
UnroundedAboveFifty ==
    \/ model.kind = "none" /\ 5 * ReqFeatureSum > 300000
    \/ model.kind = "ok" /\ model.proba > 50000

\* C7 amended: the outcome is Malignant exactly when the probability before
\* rounding is above 50 and Benign otherwise; a value of exactly 50 yields
\* Benign and the benign-branch recommendations; the reported probability
\* is at least 50.00 with Malignant and at most 50.00 with Benign
C7_OutcomeOnUnrounded ==
    TechnicalAnswered =>
        /\ response.body.outcome = "Malignant" <=> UnroundedAboveFifty
        /\ response.body.outcome = "Benign" <=> ~UnroundedAboveFifty
        /\ response.body.outcome = "Malignant" => response.body.malignant_probability >= 5000
        /\ response.body.outcome = "Benign" =>
              /\ response.body.malignant_probability <= 5000
              /\ response.body.preventions[1].recommendation = "Schedule follow-up in 6 months"

\* the fallback formula gives exactly 50 and the answer is Benign
C7_Witness ==
    /\ TechnicalAnswered
    /\ model.kind = "none"
    /\ 5 * ReqFeatureSum = 300000
    /\ response.body.malignant_probability = 5000
    /\ response.body.outcome = "Benign"
    /\ response.body.preventions[1].recommendation = "Schedule follow-up in 6 months"

\* C9 as stated: when the malignant branch is taken an Urgent 'comprehensive
\* evaluation' record is at position 0, before the branch records
C9_AsStated ==
    (TechnicalAnswered /\ response.body.outcome = "Malignant") =>
        /\ response.body.preventions[1].recommendation = "Schedule comprehensive medical evaluation"
        /\ response.body.preventions[1].priority = "Urgent"
        /\ response.body.preventions[2].recommendation = "Consult oncologist immediately"

\* C9 amended: the technical path prepends nothing in either branch; the
\* list is the branch records followed by the general records, so with the
\* malignant branch preventions[0] is the Urgent 'Consult oncologist
\* immediately' record and with the benign branch it is the Medium
\* 'Schedule follow-up in 6 months' record
C9_NoTechnicalPrepend ==
    TechnicalAnswered =>
        LET P == response.body.preventions
            general == IF variant = "session" THEN 3 ELSE 0
        IN  /\ \A i \in 1..Len(P) : ~IsOverall(P[i])
            /\ response.body.outcome = "Malignant" =>
                  /\ P[1].recommendation = "Consult oncologist immediately"
                  /\ P[1].priority = "Urgent"
                  /\ P[2].recommendation = "Schedule biopsy and additional imaging"
                  /\ Len(P) = (IF variant = "session" THEN 3 ELSE 2) + general
            /\ response.body.outcome = "Benign" =>
                  /\ P[1].recommendation = "Schedule follow-up in 6 months"
                  /\ P[1].priority = "Medium"
                  /\ Len(P) = (IF variant = "session" THEN 2 ELSE 1) + general

\* a Malignant answer whose first record is 'Consult oncologist immediately'
C9_Witness ==
    /\ TechnicalAnswered
    /\ response.body.outcome = "Malignant"
    /\ response.body.preventions[1].recommendation = "Consult oncologist immediately"
    /\ response.body.preventions[1].priority = "Urgent"

\* ---------------------------------------------------------------------------
\* C11: the general tail of the recommendation list

\* the recommendation texts of the last n records of list P
TailTexts(P, n) ==
    IF Len(P) < n THEN << >>
    ELSE [i \in 1..n |-> P[Len(P) - n + i].recommendation]

\* the general records of the symptom path, in the order they are appended
SymptomTailTexts ==
    << "Maintain healthy weight",
       "Exercise regularly (150 min/week)",
       "Limit alcohol consumption",
       "Eat a healthy diet rich in fruits and vegetables",
       "Perform monthly breast self-exams" >>

\* the general records of the technical path, in the order they are appended
TechnicalTailTexts ==
    << "Maintain healthy lifestyle",
       "Track any changes in breast tissue",
       "Learn about breast health" >>

\* C11: every answered symptom request ends with the five general records
\* of the symptom path and every answered technical request ends with the
\* three general records of the technical path, in that order, after all
\* conditional records.  The JWT variant's predict_technical appends no
\* general record, so its list ends with the branch records.
C11_FixedTail ==
    /\ SymptomAnswered =>
           TailTexts(response.body.preventions, 5) = SymptomTailTexts
    /\ TechnicalAnswered =>
           TailTexts(response.body.preventions, 3) = TechnicalTailTexts

\* the tail holds wherever a general block exists in the code: on the
\* symptom path of both variants and on the session variant's technical path
C11_TailWhereAppended ==
    /\ SymptomAnswered =>
           TailTexts(response.body.preventions, 5) = SymptomTailTexts
    /\ (TechnicalAnswered /\ variant = "session") =>
           TailTexts(response.body.preventions, 3) = TechnicalTailTexts
    /\ (TechnicalAnswered /\ variant = "jwt") =>
           Len(response.body.preventions) \in {1, 2}

\* ---------------------------------------------------------------------------
\* C13: range of the reported scores for every accepted input

\* C13: risk_percentage and malignant_probability lie in 0..100 for every
\* request the endpoints answer, negative ages and negative feature values
\* included.  The code caps with min(..., 100) only; nothing raises a
\* negative score to 0.
C13_Clamped ==
    /\ SymptomAnswered =>
           /\ response.body.risk_percentage >= 0
           /\ response.body.risk_percentage <= 10000
    /\ TechnicalAnswered =>
           /\ response.body.malignant_probability >= 0
           /\ response.body.malignant_probability <= 10000

\* the upper end of the range holds for every answered request
C13_NeverAboveHundred ==
    /\ SymptomAnswered => response.body.risk_percentage <= 10000
    /\ TechnicalAnswered => response.body.malignant_probability <= 10000

(***************************************************************************)
(* Symptom requests whose fields carry other values than 'yes' and 'no'    *)
(***************************************************************************)
\* what data.get(k) yields besides the string 'yes': the strings 'no', 'Yes'
\* and 'true', JSON true (Python True), the number 1, and None for a key
\* the payload does not hold
OtherAnswers == {"no", "Yes", "true", "True", "1", "None"}

\* the ages of these payloads: 0, 45, a value int() rejects, no age key
FieldAges == {a \in AgeInputs : a.val \in {0, 45}}

\* payloads mixing 'yes' with one of the other values
FieldsData ==
    UNION { [age : FieldAges, familyHistory : {"yes", o},
             previousConditions : {"yes", o}, lumpPresent : {"yes", o},
             nippleDischarge : {"yes", o}, skinChanges : {"yes", o},
             breastPain : {"yes", o}, armpitSwelling : {"yes", o},
             asymmetry : {"yes", o}] : o \in OtherAnswers }

\* one symptom request of a client the endpoint admits: anonymous in the
\* session variant, with ScoreUser's token in the JWT variant
InitFields ==
    /\ variant \in Variants
    /\ model = NoModel
    /\ users_db = DictSet(EmptyDict, ScoreUser, UserRecord("A", ScoreUser, "pw1"))
    /\ predictions_db = EmptyDict
    /\ session = EmptyDict
    /\ disk = IF variant = "session" THEN save_data(users_db, EmptyDict)
              ELSE save_data(EmptyDict, EmptyDict)
    /\ \E d \in FieldsData :
          request = [kind |-> "symptom",
                     auth |-> IF variant = "session" THEN NoAuth ELSE Bearer(ScoreUser),
                     data |-> d]
    /\ response = Pending
    /\ observed = NoObservations
    /\ predictions_file = EmptyFile
    /\ calls = NoCalls

NextFields ==
    \/ predict_symptom_based
    \/ jwt_predict_symptom_based

SpecFields == InitFields /\ [][NextFields]_vars

\* ---------------------------------------------------------------------------
\* C12: only the literal string 'yes' counts as a positive answer

\* C12: a symptom field counts as positive exactly when its value is the
\* string 'yes'; any other value or an absent key counts as negative, in the
\* score and in the conditional records, and the request is answered with
\* a prediction whenever the age is an integer or absent; an absent age
\* counts as 0
C12_OnlyLiteralYes ==
    (request.kind = "symptom" /\ response # Pending /\ request.data.age # BadAge) =>
        /\ response.status = 200
        /\ LET age == IF request.data.age.given THEN request.data.age.val ELSE 0
           IN  response.body.risk_percentage =
                   Min(10000,
                       20 * age
                       + 2000 * Yes("familyHistory") + 1500 * Yes("previousConditions")
                       + 2500 * Yes("lumpPresent") + 1500 * Yes("nippleDischarge")
                       + 2000 * Yes("skinChanges") + 1000 * Yes("breastPain")
                       + 2200 * Yes("armpitSwelling") + 1800 * Yes("asymmetry"))
        /\ LET P == response.body.preventions
               cond == SelectSeq(P, LAMBDA r : r.recommendation \in ConditionalTexts)
           IN  [i \in 1..Len(cond) |-> cond[i].recommendation] = ExpectedConditional

\* no age key, lumpPresent 'yes' and 'Yes' in every other field: 25, Low
\* Risk, the lump record and the five general records
C12_Witness ==
    /\ request.kind = "symptom"
    /\ request.data.age = NoAge
    /\ request.data.lumpPresent = "yes"
    /\ request.data.familyHistory = "Yes"
    /\ request.data.armpitSwelling = "Yes"
    /\ response.status = 200
    /\ response.body.risk_percentage = 2500
    /\ response.body.outcome = "Low Risk"
    /\ Len(response.body.preventions) = 6
    /\ response.body.preventions[1].recommendation = "Schedule clinical breast exam immediately"

\* ---------------------------------------------------------------------------
\* C15: a failing classifier never fails the request

\* the request passes the endpoint's authentication: the session variant
\* admits everybody, the JWT variant a token of a registered user
Admitted ==
    \/ variant = "session"
    \/ request.auth.kind = "bearer" /\ request.auth.email \in DOMAIN users_db

\* all six features of the request are parsable numbers
ReqFeaturesParse ==
    \A f \in {"radiusMean", "textureMean", "perimeterMean", "areaMean",
              "smoothnessMean", "compactnessMean"} : request.data[f].ok

\* C15: when the loaded classifier raises during predict_technical, an
\* admitted request with parsable features is answered 200 with both
\* probabilities, an outcome and a non-empty preventions list, and never
\* with an error body
C15_ClassifierFailureCaught ==
    (/\ request.kind = "technical"
     /\ response # Pending
     /\ model.kind = "raises"
     /\ Admitted
     /\ ReqFeaturesParse) =>
        /\ response.status = 200
        /\ {"malignant_probability", "benign_probability", "outcome", "preventions"}
               \subseteq DOMAIN response.body
        /\ "error" \notin DOMAIN response.body
        /\ response.body.outcome \in {"Malignant", "Benign"}
        /\ response.body.malignant_probability + response.body.benign_probability = 10000
        /\ Len(response.body.preventions) >= 1

\* a raising classifier and all six features 0, anonymous in the session
\* variant: answered 200 with a Benign result
C15_Witness ==
    /\ variant = "session"
    /\ request.kind = "technical"
    /\ model.kind = "raises"
    /\ AllFeaturesZero
    /\ response.status = 200
    /\ response.body.outcome = "Benign"
    /\ "error" \notin DOMAIN response.body

\* ---------------------------------------------------------------------------
\* C17: status of an invalid numeric input

\* the request carries an age int() rejects or a feature float() rejects
InvalidNumber ==
    \/ request.kind = "symptom" /\ request.data.age = BadAge
    \/ request.kind = "technical" /\ ~ReqFeaturesParse

\* C17: a request with an unparsable age or feature is answered with a
\* status in 400..499.  Both variants answer 500: the session variant lets
\* the ValueError escape the view, the JWT variant's catch-all handler
\* returns 500.
C17_ClientError ==
    (response # Pending /\ InvalidNumber) =>
        (response.status >= 400 /\ response.status <= 499)

\* an invalid number never yields a prediction: the answer is 500, or the
\* JWT variant's 401 when the token is rejected first
C17_AnsweredAsServerError ==
    (response # Pending /\ InvalidNumber) =>
        response.status = IF Admitted THEN 500 ELSE 401

\* ---------------------------------------------------------------------------
\* C20: the session variant and the JWT variant answer alike

\* the (category, recommendation, priority) of every record of list P
Triples(P) ==
    [i \in 1..Len(P) |-> <<P[i].category, P[i].recommendation, P[i].priority>>]

\* the user the answered request is authenticated as, "" when there is none
AuthenticatedUser ==
    IF variant = "session"
    THEN (IF "user_email" \in DOMAIN session THEN session["user_email"] ELSE "")
    ELSE (IF request.auth.kind = "bearer" /\ request.auth.email \in DOMAIN users_db
          THEN request.auth.email ELSE "")

OtherVariant == IF variant = "session" THEN "jwt" ELSE "session"

\* what the other variant answers to the request
OtherAnswer ==
    IF request.kind = "symptom"
    THEN SymptomPrediction(OtherVariant, GetAge(request.data).val, request.data,
                           AuthenticatedUser)
    ELSE TechnicalPrediction(OtherVariant, model, request.data, AuthenticatedUser)

\* C20: with no classifier loaded, the answer to an authenticated user's
\* request has the same risk_percentage / malignant_probability, the same
\* outcome and the same ordered (category, recommendation, priority) records
\* as the other variant's answer to the same payload, on the symptom and on
\* the technical endpoint.  On the technical endpoint the JWT variant
\* returns two records for Malignant and one for Benign where the session
\* variant returns six and five.
C20_VariantsAgree ==
    (/\ request.kind \in {"symptom", "technical"}
     /\ response.status = 200
     /\ model = NoModel
     /\ AuthenticatedUser # "") =>
        /\ response.body.outcome = OtherAnswer.outcome
        /\ Triples(response.body.preventions) = Triples(OtherAnswer.preventions)
        /\ request.kind = "symptom" =>
               response.body.risk_percentage = OtherAnswer.risk_percentage
        /\ request.kind = "technical" =>
               response.body.malignant_probability = OtherAnswer.malignant_probability

\* the variants agree on everything but the technical endpoint's records
C20_AgreeButTechnicalRecords ==
    (/\ request.kind \in {"symptom", "technical"}
     /\ response.status = 200
     /\ model = NoModel
     /\ AuthenticatedUser # "") =>
        /\ response.body.outcome = OtherAnswer.outcome
        /\ request.kind = "symptom" =>
               /\ response.body.risk_percentage = OtherAnswer.risk_percentage
               /\ Triples(response.body.preventions) = Triples(OtherAnswer.preventions)
        /\ request.kind = "technical" =>
               /\ response.body.malignant_probability = OtherAnswer.malignant_probability
               /\ response.body.benign_probability = OtherAnswer.benign_probability
               /\ Len(response.body.preventions) # Len(OtherAnswer.preventions)

(***************************************************************************)
(* Properties of the server as a whole, stated on Spec                     *)
(***************************************************************************)
\* ---------------------------------------------------------------------------
\* C14: the same input always gets the same answer

\* C14: any two predictions answered for the same endpoint and the same
\* payload carry the same score or probabilities, the same outcome and the
\* same ordered preventions, whoever sent them and whatever registrations,
\* logins and other predictions happened in between
C14_SameInputSameAnswer ==
    \A a \in observed.answers : \A b \in observed.answers :
        (a.kind = b.kind /\ a.data = b.data) => a.result = b.result

\* the same symptom payload answered for two users, each holding the
\* prediction in their own history, the second after the first user's
\* prediction, another registration and another login
C14_Witness ==
    /\ request.kind = "symptom"
    /\ response.status = 200
    /\ \A e \in Emails :
          /\ e \in DOMAIN predictions_db
          /\ Len(predictions_db[e]) = 1
          /\ predictions_db[e][1].type = "symptom-based"
          /\ predictions_db[e][1].risk_percentage = 2900
    /\ Cardinality({a \in observed.answers : a.kind = "symptom"}) = 1

\* ---------------------------------------------------------------------------
\* C16: an unparsable number ends the request without a result

\* C16: the step that answers a request with an unparsable age or feature
\* answers with an error status and an error body that holds no result, and
\* leaves predictions_db as it was
C16_InvalidInputStoresNothing ==
    [][ (response = Pending /\ InvalidNumber) =>
            /\ response'.status >= 400
            /\ DOMAIN response'.body = {"error"}
            /\ predictions_db' = predictions_db ]_vars

\* a logged-in user with a stored prediction sent a technical request whose
\* radiusMean float() rejects: answered 500, the history still one long
C16_Witness ==
    /\ request.kind = "technical"
    /\ ~request.data.radiusMean.ok
    /\ response.status = 500
    /\ AuthenticatedUser # ""
    /\ AuthenticatedUser \in DOMAIN predictions_db
    /\ Len(predictions_db[AuthenticatedUser]) = 1

\* ---------------------------------------------------------------------------
\* C18: the histories are append-only

\* db2 is db1 with record p appended to the history of user e
AppendedTo(db1, db2, e, p) ==
    /\ DOMAIN db2 = DOMAIN db1 \cup {e}
    /\ db2[e] = Append(IF e \in DOMAIN db1 THEN db1[e] ELSE << >>, p)
    /\ \A x \in DOMAIN db1 : x # e => db2[x] = db1[x]

\* C18: a step that answers a prediction of authenticated user u with 200
\* appends exactly the returned record at the end of u's history, keeps
\* every earlier record of u, every other user's history and users_db; no
\* other step changes predictions_db
C18_AppendOnly ==
    [][ IF /\ request.kind \in {"symptom", "technical"}
           /\ response = Pending
           /\ response'.status = 200
           /\ AuthenticatedUser # ""
        THEN /\ AppendedTo(predictions_db, predictions_db', AuthenticatedUser,
                           response'.body)
             /\ users_db' = users_db
        ELSE predictions_db' = predictions_db ]_vars

\* the second prediction of a user was answered: the history holds the
\* earlier technical record and then the returned symptom record
C18_Witness ==
    /\ request.kind = "symptom"
    /\ response.status = 200
    /\ AuthenticatedUser # ""
    /\ AuthenticatedUser \in DOMAIN predictions_db
    /\ Len(predictions_db[AuthenticatedUser]) = 2
    /\ predictions_db[AuthenticatedUser][1].type = "technical"
    /\ predictions_db[AuthenticatedUser][2] = response.body

\* ---------------------------------------------------------------------------
\* C19: prediction-history returns the requester's own submissions

\* C19: a prediction-history request of authenticated user u is answered 200
\* with exactly the predictions u was answered while authenticated, in the
\* order of submission, none of them another user's; without an
\* authenticated identity the answer is 401 with an error body
C19_OwnHistoryOnly ==
    (request.kind = "history" /\ response # Pending) =>
        IF AuthenticatedUser # ""
        THEN /\ response.status = 200
             /\ response.body = DictGet(observed.submitted, AuthenticatedUser, << >>)
             /\ variant = "session" =>
                    \A i \in 1..Len(response.body) :
                        response.body[i].user_email = AuthenticatedUser
        ELSE /\ response.status = 401
             /\ DOMAIN response.body = {"error"}

\* both users hold one prediction and one of them asked for the history:
\* the answer is that user's technical record alone, while the other user's
\* record is a symptom record
C19_Witness ==
    /\ request.kind = "history"
    /\ response.status = 200
    /\ Len(response.body) = 1
    /\ response.body[1].type = "technical"
    /\ \E e \in Emails :
          /\ e # AuthenticatedUser
          /\ e \in DOMAIN predictions_db
          /\ Len(predictions_db[e]) = 1
          /\ predictions_db[e][1].type = "symptom-based"

(***************************************************************************)
(* src/backend/utils.py                                                    *)
(***************************************************************************)
\* get_risk_category(risk_percentage), the percentage in hundredths
get_risk_category(rp) ==
    IF rp < 3000 THEN "Low Risk"
    ELSE IF rp < 6000 THEN "Moderate Risk"
    ELSE "High Risk"

\* ---------------------------------------------------------------------------
\* C25: the helper's bands against the endpoint's bands

\* C25: for every answered symptom request, get_risk_category of the
\* returned risk_percentage is the returned outcome, the boundary values 30
\* and 60 included.  The helper tests '< 30' and '< 60' where the endpoint
\* tests '> 30' and '> 60', so 30 and 60 fall in different bands.
C25_SameBands ==
    SymptomAnswered =>
        get_risk_category(response.body.risk_percentage) = response.body.outcome

\* the helper and the endpoint agree everywhere but at exactly 30 and 60,
\* where the helper names the higher band
C25_DifferOnlyAtBoundaries ==
    SymptomAnswered =>
        LET rp == response.body.risk_percentage
            cat == get_risk_category(rp)
        IN  /\ rp \notin {3000, 6000} => cat = response.body.outcome
            /\ rp = 3000 => (cat = "Moderate Risk" /\ response.body.outcome = "Low Risk")
            /\ rp = 6000 => (cat = "High Risk" /\ response.body.outcome = "Moderate Risk")

(***************************************************************************)
(* Two symptom requests, the second with one more 'yes' or a higher age    *)
(***************************************************************************)
SymptomFields == {"familyHistory", "previousConditions", "lumpPresent",
                  "nippleDischarge", "skinChanges", "breastPain",
                  "armpitSwelling", "asymmetry"}

\* the ages of these payloads: every tenth year, and every year from 45 on,
\* around the multiplier switch between 50 and 51
MonoAges == {a \in 0..MaxAge : a % 10 = 0 \/ a >= 45}

\* the yes/no payloads with one of these ages
MonoData == {d \in SymptomData : d.age.ok /\ d.age.val \in MonoAges}

\* the payloads that differ from d in one field turned to 'yes' or in a
\* higher age
HigherThan(d) ==
    {[d EXCEPT ![f] = "yes"] : f \in {g \in SymptomFields : d[g] # "yes"}}
    \cup {[d EXCEPT !.age.val = a] : a \in {x \in MonoAges : x > d.age.val}}

\* one symptom request of a client the endpoint admits
InitMono ==
    /\ variant \in Variants
    /\ model = NoModel
    /\ users_db = DictSet(EmptyDict, ScoreUser, UserRecord("A", ScoreUser, "pw1"))
    /\ predictions_db = EmptyDict
    /\ session = EmptyDict
    /\ disk = IF variant = "session" THEN save_data(users_db, EmptyDict)
              ELSE save_data(EmptyDict, EmptyDict)
    /\ \E d \in MonoData :
          request = [kind |-> "symptom",
                     auth |-> IF variant = "session" THEN NoAuth ELSE Bearer(ScoreUser),
                     data |-> d]
    /\ response = Pending
    /\ observed = NoObservations
    /\ predictions_file = EmptyFile
    /\ calls = NoCalls

\* the client that was answered once sends the payload d next
SendHigher(d) ==
    /\ response.status = 200
    /\ Cardinality(observed.answers) = 1
    /\ request' = [request EXCEPT !.data = d]
    /\ response' = Pending
    /\ UNCHANGED <<variant, model, users_db, predictions_db, session, disk, observed,
                   predictions_file, calls>>

NextMono ==
    \/ \E d \in HigherThan(request.data) : SendHigher(d)
    \/ predict_symptom_based
    \/ jwt_predict_symptom_based

SpecMono == InitMono /\ [][NextMono]_vars

\* ---------------------------------------------------------------------------
\* C26: the symptom score is monotone

\* payload e has every 'yes' of payload d and an age that is not lower
Dominates(d, e) ==
    /\ d.age.val >= 0
    /\ e.age.val >= d.age.val
    /\ \A f \in SymptomFields : d[f] = "yes" => e[f] = "yes"

BandRank(outcome) ==
    IF outcome = "High Risk" THEN 2 ELSE IF outcome = "Moderate Risk" THEN 1 ELSE 0

\* 2 for a list led by the Urgent overall record, 1 for the High one, else 0
PrependRank(P) ==
    IF IsUrgentOverall(P[1]) THEN 2 ELSE IF IsHighOverall(P[1]) THEN 1 ELSE 0

\* C26: of two answered symptom requests with non-negative ages, the one
\* with a further 'yes' or a higher age (the step from 50 to 51 included)
\* has no lower risk_percentage, no lower outcome band, and does not lose
\* or downgrade the overall record at the head of its list
C26_Monotone ==
    \A a \in observed.answers : \A b \in observed.answers :
        (a.kind = "symptom" /\ b.kind = "symptom" /\ Dominates(a.data, b.data)) =>
            /\ b.result.risk_percentage >= a.result.risk_percentage
            /\ BandRank(b.result.outcome) >= BandRank(a.result.outcome)
            /\ PrependRank(b.result.preventions) >= PrependRank(a.result.preventions)

\* age 50 without symptoms answered 10 (Low Risk, no overall record), then
\* age 51 answered 25.5
C26_Witness ==
    /\ request.kind = "symptom"
    /\ response.status = 200
    /\ ReqAge = 51
    /\ NoSymptoms
    /\ response.body.risk_percentage = 2550
    /\ \E a \in observed.answers :
          /\ a.data.age.val = 50
          /\ a.data = [request.data EXCEPT !.age.val = 50]
          /\ a.result.risk_percentage = 1000

(***************************************************************************)
(* src/backend/database.py: Database.save_prediction called by two workers *)
(***************************************************************************)
\* calls of save_prediction a worker makes at most
MaxCalls == 2

\* the prediction_data of the n-th call of worker w
PredictionId(w, n) == (IF w = "w1" THEN 0 ELSE 100) + n

\* the variables of the Flask application, which the Database does not touch
appvars == <<variant, model, users_db, predictions_db, session, disk, request,
             response, observed>>

\* a worker enters save_prediction(user_email, prediction_data)
save_prediction(w, e) ==
    /\ calls[w].pc = "idle"
    /\ Cardinality(calls[w].saved) < MaxCalls
    /\ calls' = [calls EXCEPT ![w].pc = "load",
                              ![w].user_email = e,
                              ![w].prediction_data =
                                  PredictionId(w, Cardinality(calls[w].saved) + 1)]
    /\ UNCHANGED <<predictions_file, appvars>>

\* predictions = self._load_json(self.predictions_file): json.load fails on
\* a file a writer has truncated, and the except branch returns {}
load_json(w) ==
    /\ calls[w].pc = "load"
    /\ calls' = [calls EXCEPT ![w].pc = "append",
                              ![w].predictions =
                                  IF predictions_file.open THEN EmptyDict
                                  ELSE predictions_file.content]
    /\ UNCHANGED <<predictions_file, appvars>>

\* predictions[user_email].append(prediction_data), on the worker's copy
append_prediction(w) ==
    /\ calls[w].pc = "append"
    /\ calls' = [calls EXCEPT ![w].pc = "open",
                              ![w].predictions =
                                  DictSet(@, calls[w].user_email,
                                          Append(DictGet(@, calls[w].user_email, << >>),
                                                 calls[w].prediction_data))]
    /\ UNCHANGED <<predictions_file, appvars>>

\* _save_json: open(filepath, 'w') truncates the file
save_json_open(w) ==
    /\ calls[w].pc = "open"
    /\ predictions_file' = [open |-> TRUE, content |-> EmptyDict]
    /\ calls' = [calls EXCEPT ![w].pc = "dump"]
    /\ UNCHANGED appvars

\* _save_json: json.dump and close; save_prediction returns
save_json_dump(w) ==
    /\ calls[w].pc = "dump"
    /\ predictions_file' = [open |-> FALSE, content |-> calls[w].predictions]
    /\ calls' = [calls EXCEPT ![w].pc = "idle",
                              ![w].saved = @ \cup {[user_email |-> calls[w].user_email,
                                                    prediction_data |-> calls[w].prediction_data]}]
    /\ UNCHANGED appvars

InitDb ==
    /\ variant = "jwt"
    /\ model = NoModel
    /\ users_db = EmptyDict
    /\ predictions_db = EmptyDict
    /\ session = EmptyDict
    /\ disk = save_data(EmptyDict, EmptyDict)
    /\ request = NoRequest
    /\ response = Idle
    /\ observed = NoObservations
    /\ predictions_file = EmptyFile
    /\ calls = NoCalls

NextDb ==
    \/ \E w \in Workers, e \in Emails : save_prediction(w, e)
    \/ \E w \in Workers : load_json(w)
    \/ \E w \in Workers : append_prediction(w)
    \/ \E w \in Workers : save_json_open(w)
    \/ \E w \in Workers : save_json_dump(w)

SpecDb == InitDb /\ [][NextDb]_vars

\* ---------------------------------------------------------------------------
\* C21: save_prediction under concurrency

\* prediction_data d is in the file's list of user e
InFile(e, d) ==
    /\ e \in DOMAIN predictions_file.content
    /\ \E i \in 1..Len(predictions_file.content[e]) : predictions_file.content[e][i] = d

\* C21: whenever no save_prediction call is running, the predictions file
\* holds every prediction a save_prediction call has returned for, whichever
\* way the calls of the two workers interleaved.  A worker that loads the
\* file before the other one writes it writes back a copy without the
\* other's prediction.
C21_NoPredictionLost ==
    (\A w \in Workers : calls[w].pc = "idle") =>
        \A w \in Workers : \A s \in calls[w].saved :
            InFile(s.user_email, s.prediction_data)

\* the calls of one worker alone lose nothing: while the other worker has
\* never called, the file holds every prediction the worker has saved
C21_SingleWorkerKeepsAll ==
    \A w \in Workers :
        (/\ calls[w].pc = "idle"
         /\ \A x \in Workers \ {w} : calls[x].pc = "idle" /\ calls[x].saved = {}) =>
            \A s \in calls[w].saved : InFile(s.user_email, s.prediction_data)

\* ---------------------------------------------------------------------------
\* C23: register never overwrites an account

\* the pending request is a registration the endpoint must reject
RejectedRegistration ==
    /\ request.kind = "register"
    /\ response = Pending
    /\ \/ request.data.email = ""
       \/ request.data.password = ""
       \/ request.data.name = ""
       \/ request.data.email \in DOMAIN users_db

\* C23: a registration with a known email or without email, password or
\* name is answered 400 and leaves users_db unchanged; no step changes or
\* removes an account; the only change of users_db is a new key e, added by
\* a registration for e, whose record has the email e and the password of
\* that registration -- so every account keeps the password of its first
\* successful registration
C23_RegisterNeverOverwrites ==
    [][ /\ RejectedRegistration =>
               (response'.status = 400 /\ users_db' = users_db)
        /\ \A e \in DOMAIN users_db :
               e \in DOMAIN users_db' /\ users_db'[e] = users_db[e]
        /\ \A e \in (DOMAIN users_db') \ DOMAIN users_db :
               /\ request.kind = "register"
               /\ request.data.email = e
               /\ response'.status = 201
               /\ users_db'[e].email = e
               /\ users_db'[e].name = request.data.name
               /\ check_password_hash(users_db'[e].password, request.data.password)
      ]_vars

\* a registration for a known email with another password was answered
\* 400, and the account still has the first password
C23_Witness ==
    /\ request.kind = "register"
    /\ response.status = 400
    /\ request.data.email = "a@x.io"
    /\ request.data.password = "pw2"
    /\ request.data.name # ""
    /\ "a@x.io" \in DOMAIN users_db
    /\ users_db["a@x.io"].email = "a@x.io"
    /\ check_password_hash(users_db["a@x.io"].password, "pw1")

\* ---------------------------------------------------------------------------
\* C22: the session after logout and after a failed login

\* the session is authenticated
LoggedIn(s) == "user_email" \in DOMAIN s

\* the pending login names a registered email with its password
GoodLogin ==
    /\ request.kind = "login"
    /\ request.data.email # ""
    /\ request.data.password # ""
    /\ request.data.email \in DOMAIN users_db
    /\ check_password_hash(users_db[request.data.email].password,
                           request.data.password)

\* C22 (session variant): the logout step leaves the session without a
\* user; while the session has none, every prediction-history and
\* ai-assistance request is answered 401; the session gets a user, or a new
\* one, only in the step that answers a login with a registered email and
\* its password, and then it is that email; a login without these is not
\* answered 200 and leaves the session as it was
C22_LoggedOutUntilLogin ==
    [][ variant = "session" =>
          /\ (request.kind = "logout" /\ response = Pending) => ~LoggedIn(session')
          /\ (request.kind \in {"history", "ai"} /\ response = Pending
              /\ ~LoggedIn(session)) =>
                 (response'.status = 401 /\ DOMAIN response'.body = {"error"})
          /\ (LoggedIn(session')
              /\ (~LoggedIn(session) \/ session'["user_email"] # session["user_email"])) =>
                 /\ response = Pending
                 /\ GoodLogin
                 /\ response'.status = 200
                 /\ session'["user_email"] = request.data.email
          /\ (request.kind = "login" /\ response = Pending /\ ~GoodLogin) =>
                 /\ response'.status \in {400, 401}
                 /\ session' = session
      ]_vars

\* a user with a stored prediction has logged out and asked for an answer
\* of ai-assistance: 401, and the session has no user
C22_Witness ==
    /\ variant = "session"
    /\ request.kind = "ai"
    /\ response.status = 401
    /\ ~LoggedIn(session)
    /\ "a@x.io" \in DOMAIN predictions_db
    /\ Len(predictions_db["a@x.io"]) >= 1

\* ---------------------------------------------------------------------------
\* C24: predictions without an authenticated identity

====
